---- MODULE Spec2Model ----
(***************************************************************************)
(* A model of raft_agent/main.py: the four-node LangGraph pipeline         *)
(* parse_intent -> fetch_orders -> extract_orders -> filter_orders, with   *)
(* its helpers chunk_text, normalize_state and normalize_total and the     *)
(* pydantic schemas that gate the completion output.                       *)
(*                                                                         *)
(* Conventions.                                                            *)
(*  - A Python str is a sequence of one-character strings.                 *)
(*  - A Python value is a tagged record: PyNone, PyStr(s), PyFloat(n).     *)
(*  - A float is an integer count of thousandths (150.00 is 150000), so    *)
(*    that values between two cents exist and rounding to 2 decimals is    *)
(*    a real operation.                                                    *)
(*  - A dict created by model_dump() is an object of `heap`; the lists     *)
(*    parsed_orders and final_orders hold references (indices into heap),  *)
(*    as Python lists do.                                                  *)
(***************************************************************************)
EXTENDS Integers, Sequences, FiniteSets, TLC

VARIABLES
    \* AgentState, the record LangGraph threads through the nodes
    user_query, intent, raw_orders, parsed_orders, final_orders,
    \* the order dicts created by model_dump(), by object identity
    heap,
    \* the node about to run (or END / ABORTED) and the locals of extract_orders
    pc, chunks, extracted_orders,
    \* observation: nodes entered so far, completion calls made, the escaped
    \* exception, whether requests.get failed, the order dicts as
    \* extract_orders returned them, what the schema made of the latest
    \* completion inside the loop of extract_orders, and whether the schema
    \* rejected the completion of parse_intent
    trace, llm_calls, error, fetch_failed, produced, last_reply, intent_rejected,
    \* harness for the pure helper chunk_text (SpecChunk)
    arg_text, arg_max_chars, ret_chunks,
    \* harness for the pure helpers normalize_state and normalize_total
    \* (SpecNorm): the argument, normalize_state(arg_value),
    \* normalize_state(normalize_state(arg_value)), normalize_total(arg_value)
    arg_value, ret_state, ret_state_again, ret_total

agent_state == <<user_query, intent, raw_orders, parsed_orders, final_orders>>
pipeline_vars == <<agent_state, heap, pc, chunks, extracted_orders,
                   trace, llm_calls, error, fetch_failed, produced, last_reply,
                   intent_rejected>>
chunk_vars == <<arg_text, arg_max_chars, ret_chunks>>
norm_vars == <<arg_value, ret_state, ret_state_again, ret_total>>
vars == <<pipeline_vars, chunk_vars, norm_vars>>

----------------------------------------------------------------------------
(* Bounds of the model *)

\* longest text handed to chunk_text in SpecChunk
MaxTextLen == 6
\* largest max_chars handed to chunk_text in SpecChunk
MaxBudget == 3
\* longest text handed to normalize_state and normalize_total in SpecNorm
MaxValueLen == 4
\* most order objects the completion service returns during one run
MaxOrders == 2

----------------------------------------------------------------------------
(* Python values *)

PyNone == [t |-> "None"]
PyStr(s) == [t |-> "str", v |-> s]
PyFloat(n) == [t |-> "float", v |-> n]
\* an int a float can hold, and an int of a magnitude above
\* sys.float_info.max (10**400, say), of which only the type and the size
\* class are kept
PyInt(n) == [t |-> "int", v |-> n, fits_float |-> TRUE]
PyHugeInt == [t |-> "int", fits_float |-> FALSE]
PyBool(b) == [t |-> "bool", v |-> b]
PyList == [t |-> "list"]

\* bool(x) is False: None, the empty string, 0.0
Falsy(x) ==
    \/ x.t = "None"
    \/ x.t = "str" /\ x.v = <<>>
    \/ x.t = "float" /\ x.v = 0

\* dict.get(key): None when the key is absent
Get(d, key) == IF key \in DOMAIN d THEN d[key] ELSE PyNone

EmptyDict == <<>>

LF == "\n"
CR == "\r"

Min(S) == CHOOSE i \in S : \A j \in S : i <= j

\* the sequences over S of length at most n
RECURSIVE SeqsUpTo(_, _)
SeqsUpTo(S, n) ==
    IF n = 0 THEN {<<>>}
    ELSE LET shorter == SeqsUpTo(S, n - 1) IN
         shorter \cup {Append(s, c) : s \in {x \in shorter : Len(x) = n - 1}, c \in S}

\* the string c * n
Repeat(c, n) == [i \in 1..n |-> c]

----------------------------------------------------------------------------
(* chunk_text and str.splitlines *)

\* position i of t ends a line: "\n", or "\r" not followed by "\n"
IsBreak(t, i) ==
    \/ t[i] = LF
    \/ t[i] = CR /\ ~(i < Len(t) /\ t[i + 1] = LF)

RECURSIVE LinesFrom(_, _)
LinesFrom(t, s) ==
    IF s > Len(t) THEN <<>>
    ELSE LET bs == {i \in s..Len(t) : IsBreak(t, i)} IN
         IF bs = {} THEN <<SubSeq(t, s, Len(t))>>
         ELSE LET b == Min(bs)
                  e == IF t[b] = LF /\ b > s /\ t[b - 1] = CR
                       THEN b - 2 ELSE b - 1
              IN <<SubSeq(t, s, e)>> \o LinesFrom(t, b + 1)

\* str.splitlines(): no trailing empty line, "\r\n" is one line boundary
splitlines(t) == LinesFrom(t, 1)

DEFAULT_MAX_CHARS == 1500

\* a chunker that tests the accumulator alone, not the line it is about to add
OverBudget_CurrentOnly(current, line, max_chars) == Len(current) > max_chars

\* if len(current) + len(line) > max_chars
OverBudget(current, line, max_chars) == Len(current) + Len(line) > max_chars

RECURSIVE chunk_loop(_, _, _, _)
chunk_loop(lines, current, out, max_chars) ==
    IF lines = <<>>
    THEN IF current # <<>> THEN Append(out, current) ELSE out
    ELSE LET line == Head(lines) IN
         IF OverBudget(current, line, max_chars)
         THEN chunk_loop(Tail(lines), line, Append(out, current), max_chars)
         ELSE chunk_loop(Tail(lines), current \o <<LF>> \o line, out, max_chars)

chunk_text(text, max_chars) == chunk_loop(splitlines(text), <<>>, <<>>, max_chars)

----------------------------------------------------------------------------
(* str methods used by the normalizers *)

Lowercase == <<"a","b","c","d","e","f","g","h","i","j","k","l","m",
               "n","o","p","q","r","s","t","u","v","w","x","y","z">>
Uppercase == <<"A","B","C","D","E","F","G","H","I","J","K","L","M",
               "N","O","P","Q","R","S","T","U","V","W","X","Y","Z">>
Digits == <<"0","1","2","3","4","5","6","7","8","9">>

\* U+0131 LATIN SMALL LETTER DOTLESS I: lower() keeps it, upper() gives "I"
DOTLESS_I == "dotless-i"

Whitespace == {" ", "\t", LF, CR}

IndexIn(seq, c) == CHOOSE i \in DOMAIN seq : seq[i] = c
Occurs(seq, c) == \E i \in DOMAIN seq : seq[i] = c

UpperChar(c) ==
    IF Occurs(Lowercase, c) THEN Uppercase[IndexIn(Lowercase, c)]
    ELSE IF c = DOTLESS_I THEN "I" ELSE c
LowerChar(c) ==
    IF Occurs(Uppercase, c) THEN Lowercase[IndexIn(Uppercase, c)] ELSE c

upper(s) == [i \in DOMAIN s |-> UpperChar(s[i])]
lower(s) == [i \in DOMAIN s |-> LowerChar(s[i])]

\* str.strip(): drop leading and trailing whitespace
strip(s) ==
    LET keep == {i \in DOMAIN s : s[i] \notin Whitespace} IN
    IF keep = {} THEN <<>>
    ELSE SubSeq(s, Min(keep), CHOOSE i \in keep : \A j \in keep : j <= i)

\* str.replace(c, ""): drop every occurrence of the character c
RemoveChar(s, c) == SelectSeq(s, LAMBDA x : x # c)

----------------------------------------------------------------------------
(* Deterministic normalization helpers *)

STATE_NORMALIZATION ==
    (<<"o","h","i","o">> :> <<"O","H">>)
    @@ (<<"c","a","l","i","f","o","r","n","i","a">> :> <<"C","A">>)
    @@ (<<"n","e","w"," ","y","o","r","k">> :> <<"N","Y">>)

\* STATE_NORMALIZATION.get(v, value.upper())
LookupState(v, value) ==
    IF v \in DOMAIN STATE_NORMALIZATION THEN STATE_NORMALIZATION[v] ELSE upper(value)

normalize_state(value) ==
    IF Falsy(value) THEN PyNone
    ELSE PyStr(LookupState(lower(strip(value.v)), value.v))

RECURSIVE DigitsValue(_)
DigitsValue(ds) ==
    IF ds = <<>> THEN 0
    ELSE 10 * DigitsValue(SubSeq(ds, 1, Len(ds) - 1)) + (IndexIn(Digits, ds[Len(ds)]) - 1)

AllDigits(ds) == \A i \in DOMAIN ds : Occurs(Digits, ds[i])

ValueError == [t |-> "ValueError"]

\* float(s) for the decimal notations [sign] digits [. digits] (surrounding
\* whitespace allowed), in thousandths; ValueError for any other text over
\* the characters the model draws from (digits, ".", sign, "$", ",", space
\* and letters; exponents, "_", "inf" and "nan" are not among them).
\* Fraction digits beyond the third are below the resolution of the model
\* and are truncated.
float_of_str(s) ==
    LET body == strip(s)
        signed == body # <<>> /\ body[1] \in {"+", "-"}
        mag == IF signed THEN Tail(body) ELSE body
        dots == {i \in DOMAIN mag : mag[i] = "."}
        ip == IF dots = {} THEN mag ELSE SubSeq(mag, 1, Min(dots) - 1)
        fp == IF dots = {} THEN <<>> ELSE SubSeq(mag, Min(dots) + 1, Len(mag))
        fp3 == SubSeq(fp \o <<"0", "0", "0">>, 1, 3)
    IN IF AllDigits(ip) /\ AllDigits(fp) /\ Len(ip) + Len(fp) > 0
       THEN PyFloat((IF signed /\ body[1] = "-" THEN -1 ELSE 1)
                    * (1000 * DigitsValue(ip) + DigitsValue(fp3)))
       ELSE ValueError

OverflowError == [t |-> "OverflowError"]

\* float(value) of an int, a bool (an int in Python) or a float, in
\* thousandths; OverflowError for an int too large for a float
float_of_number(value) ==
    IF value.t = "float" THEN value
    ELSE IF value.t = "bool" THEN PyFloat(IF value.v THEN 1000 ELSE 0)
    ELSE IF value.fits_float THEN PyFloat(1000 * value.v)
    ELSE OverflowError

normalize_total(value) ==
    IF value.t = "None" THEN PyNone
    ELSE IF value.t \in {"int", "bool", "float"} THEN float_of_number(value)
    ELSE IF value.t = "str"
         THEN LET parsed == float_of_str(RemoveChar(RemoveChar(value.v, "$"), ","))
              IN IF parsed = ValueError THEN PyNone ELSE parsed
    ELSE PyNone

\* float(f"{total:.2f}"): the nearest multiple of 0.01; a tie (which a binary
\* float holds exactly only at .125, .375, .625, .875) goes to the even cent
Round2(n) ==
    LET cents == n \div 10
        rest == n % 10
    IN IF rest < 5 THEN 10 * cents
       ELSE IF rest > 5 THEN 10 * (cents + 1)
       ELSE IF cents % 2 = 0 THEN 10 * cents ELSE 10 * (cents + 1)

----------------------------------------------------------------------------
(* SpecChunk: chunk_text applied to every text and budget within the bounds *)

TextChars == {"a", "b", LF, CR}

NotCalled == <<"not called">>
NoReply == [t |-> "no reply"]

PipelineIdle ==
    /\ user_query = <<>>
    /\ intent = EmptyDict
    /\ raw_orders = <<>>
    /\ parsed_orders = <<>>
    /\ final_orders = <<>>
    /\ heap = <<>>
    /\ pc = "idle"
    /\ chunks = <<>>
    /\ extracted_orders = <<>>
    /\ trace = <<>>
    /\ llm_calls = <<>>
    /\ error = "none"
    /\ fetch_failed = FALSE
    /\ produced = <<>>
    /\ last_reply = NoReply
    /\ intent_rejected = FALSE

\* a normalizer not yet called
NoReturn == [t |-> "not called"]

NormIdle ==
    /\ arg_value = PyNone
    /\ ret_state = NoReturn
    /\ ret_state_again = NoReturn
    /\ ret_total = NoReturn

ChunkIdle ==
    /\ arg_text = <<>>
    /\ arg_max_chars = DEFAULT_MAX_CHARS
    /\ ret_chunks = NotCalled

InitChunk ==
    /\ PipelineIdle
    /\ NormIdle
    /\ arg_text \in SeqsUpTo(TextChars, MaxTextLen)
    /\ arg_max_chars \in 0..MaxBudget
    /\ ret_chunks = NotCalled

CallChunkText ==
    /\ ret_chunks = NotCalled
    /\ ret_chunks' = chunk_text(arg_text, arg_max_chars)
    /\ UNCHANGED <<arg_text, arg_max_chars, pipeline_vars, norm_vars>>

NextChunk == CallChunkText

SpecChunk == InitChunk /\ [][NextChunk]_vars

----------------------------------------------------------------------------
(* SpecNorm: normalize_state and normalize_total applied to every value
   within the bounds *)

\* letters of "ohio" and "OH", the dotless i (U+0131), a space
StateChars == {"o", "h", "i", "O", "H", DOTLESS_I, " "}
\* what a total is written with, and a letter
TotalChars == {"1", "5", "0", ".", "$", ",", "a"}

S_california == <<"c","a","l","i","f","o","r","n","i","a">>
S_New_York == <<"N","e","w"," ","Y","o","r","k">>
S_Ohio_padded == <<" ","O","h","i","o"," ">>
S_texas == <<"t","e","x","a","s">>
S_dollars == <<"$","1",",","2","3","4",".","5","0">>
S_abc == <<"a","b","c">>
S_negative == <<"-","3",".","5">>

\* the values handed to the normalizers
NormTexts ==
    SeqsUpTo(StateChars, MaxValueLen) \cup SeqsUpTo(TotalChars, MaxValueLen)
    \cup {S_california, S_New_York, S_Ohio_padded, S_texas,
          S_dollars, S_abc, S_negative}
NormValues ==
    {PyNone} \cup {PyStr(s) : s \in NormTexts}
    \cup {PyInt(n) : n \in {-1, 0, 42}}
    \cup {PyFloat(n) : n \in {0, 1500, 42000}}
    \cup {PyHugeInt, PyBool(TRUE), PyBool(FALSE), PyList}

InitNorm ==
    /\ PipelineIdle
    /\ ChunkIdle
    /\ arg_value \in NormValues
    /\ ret_state = NoReturn
    /\ ret_state_again = NoReturn
    /\ ret_total = NoReturn

\* normalize_state(value: Optional[str])
CallNormalizeState ==
    /\ arg_value.t \in {"None", "str"}
    /\ ret_state = NoReturn
    /\ ret_state' = normalize_state(arg_value)
    /\ UNCHANGED <<arg_value, ret_state_again, ret_total, pipeline_vars, chunk_vars>>

\* normalize_state applied to its own result
CallNormalizeStateAgain ==
    /\ ret_state # NoReturn
    /\ ret_state_again = NoReturn
    /\ ret_state_again' = normalize_state(ret_state)
    /\ UNCHANGED <<arg_value, ret_state, ret_total, pipeline_vars, chunk_vars>>

CallNormalizeTotal ==
    /\ ret_total = NoReturn
    /\ ret_total' = normalize_total(arg_value)
    /\ UNCHANGED <<arg_value, ret_state, ret_state_again, pipeline_vars, chunk_vars>>

NextNorm == CallNormalizeState \/ CallNormalizeStateAgain \/ CallNormalizeTotal

SpecNorm == InitNorm /\ [][NextNorm]_vars

----------------------------------------------------------------------------
(* The completion output and the pydantic schemas that gate it *)

\* response.content is a text; what matters of it is the JSON value it holds,
\* or that it holds none
NotJson == [t |-> "not json"]
JNull == [t |-> "null"]
JStr(s) == [t |-> "str", v |-> s]
JNum(n) == [t |-> "num", v |-> n]
JArr(xs) == [t |-> "arr", v |-> xs]
JObj(fields) == [t |-> "obj", v |-> fields]

ValidationError == [t |-> "ValidationError"]
Valid(value) == [t |-> "valid", v |-> value]

\* Optional[str]: null or a string (pydantic does not coerce a number to str)
OptionalStrOK(j) == j.t \in {"null", "str"}

\* the strings pydantic coerces to a float: digits, optionally "." and digits
NumericStr(s) ==
    LET dots == {i \in DOMAIN s : s[i] = "."} IN
    /\ AllDigits(RemoveChar(s, "."))
    /\ Cardinality(dots) <= 1
    /\ s # <<>> /\ s[1] # "." /\ s[Len(s)] # "."

\* Optional[float]: null, a number, or (lax mode) a numeric string
OptionalFloatOK(j) ==
    \/ j.t \in {"null", "num"}
    \/ j.t = "str" /\ NumericStr(j.v)

\* the Python value of a validated field
FieldValue(j) ==
    IF j.t = "null" THEN PyNone
    ELSE IF j.t = "str" THEN PyStr(j.v)
    ELSE PyFloat(j.v)
FloatFieldValue(j) == IF j.t = "str" THEN float_of_str(j.v) ELSE FieldValue(j)

HasFields(j, names) == j.t = "obj" /\ names \subseteq DOMAIN j.v

\* IntentSchema.model_validate_json(content).model_dump()
IntentSchema_validate(content) ==
    IF /\ HasFields(content, {"state", "min_total"})
       /\ OptionalStrOK(content.v.state)
       /\ OptionalFloatOK(content.v.min_total)
    THEN Valid([state |-> FieldValue(content.v.state),
                min_total |-> FloatFieldValue(content.v.min_total)])
    ELSE ValidationError

OrderSchemaOK(j) ==
    /\ HasFields(j, {"orderId", "buyer", "state", "total"})
    /\ OptionalStrOK(j.v.orderId)
    /\ OptionalStrOK(j.v.buyer)
    /\ OptionalStrOK(j.v.state)
    /\ OptionalFloatOK(j.v.total)

\* OrderSchema.model_dump()
OrderDict(j) ==
    [orderId |-> FieldValue(j.v.orderId),
     buyer |-> FieldValue(j.v.buyer),
     state |-> FieldValue(j.v.state),
     total |-> FloatFieldValue(j.v.total)]

\* OrdersListSchema.model_validate_json(content): the list of order dicts
OrdersListSchema_validate(content) ==
    IF /\ HasFields(content, {"orders"})
       /\ content.v.orders.t = "arr"
       /\ \A i \in DOMAIN content.v.orders.v : OrderSchemaOK(content.v.orders.v[i])
    THEN Valid([i \in DOMAIN content.v.orders.v |-> OrderDict(content.v.orders.v[i])])
    ELSE ValidationError

----------------------------------------------------------------------------
(* What the external collaborators may answer *)

\* llm.invoke(prompt) returns a response or raises (no credential, network)
Raised == [t |-> "raised"]

S_OH == <<"O","H">>
S_ohio == <<"o","h","i","o">>
S_CA == <<"C","A">>
\* "ohio" written with the dotless i
S_ohio_dotless == <<"o","h",DOTLESS_I,"o">>
S_bob == <<"b","o","b">>

JIntent(state, min_total) == JObj([state |-> state, min_total |-> min_total])

IntentContents ==
    {JIntent(s, m) : s \in {JNull, JStr(<<>>), JStr(S_ohio), JArr(<<>>)},
                     m \in {JNull, JNum(100000), JArr(<<>>)}}
    \cup {NotJson, JObj([state |-> JNull])}

JOrder(orderId, buyer, state, total) ==
    JObj([orderId |-> orderId, buyer |-> buyer, state |-> state, total |-> total])

\* order objects the completion may return: each field varied in turn
OrderContents ==
    {JOrder(id, JStr(S_bob), JStr(S_OH), JNum(150000)) :
        id \in {JNull, JStr(<<>>), JStr(<<"1">>), JNum(1000)}}
    \cup {JOrder(JStr(<<"2">>), JNull, st, JNum(150000)) :
        st \in {JNull, JStr(<<>>), JStr(S_ohio), JStr(S_CA), JStr(S_ohio_dotless)}}
    \cup {JOrder(JStr(<<"3">>), JStr(S_bob), JStr(S_OH), tot) :
        tot \in {JNull, JNum(100000), JNum(100004), JNum(100010),
                 JStr(<<"0",".","0","0">>), JStr(<<"a","b","c">>)}}
    \cup {JObj([orderId |-> JStr(<<"4">>)])}

\* the replies to an extraction prompt holding at most n orders
OrdersContents(n) ==
    {JObj([orders |-> JArr(os)]) : os \in SeqsUpTo(OrderContents, n)}
    \cup {NotJson, JObj([orders |-> JNull]), JArr(<<>>)}

\* requests.get(...).text when the call succeeds
Bodies ==
    {<<>>,
     <<"a", LF, "b">>,
     Repeat("a", DEFAULT_MAX_CHARS \div 2 + 1) \o <<LF>> \o Repeat("b", DEFAULT_MAX_CHARS \div 2 + 1),
     Repeat("a", DEFAULT_MAX_CHARS + 1) \o <<CR, LF>> \o <<"b">>}

Queries == {<<"o","h","i","o">>}

----------------------------------------------------------------------------
(* The graph *)

END == "__end__"
ABORTED == "aborted"
ENTRY_POINT == "parse_intent"

\* a graph whose fetch node leads straight to the filter
Edge_SkipExtract(node) ==
    CASE node = "parse_intent" -> "fetch_orders"
      [] node = "fetch_orders" -> "filter_orders"
      [] node = "extract_orders" -> "filter_orders"
      [] node = "filter_orders" -> END

\* build_graph: add_edge, and the end after the last node
Edge(node) ==
    CASE node = "parse_intent" -> "fetch_orders"
      [] node = "fetch_orders" -> "extract_orders"
      [] node = "extract_orders" -> "filter_orders"
      [] node = "filter_orders" -> END

\* main: app.invoke({...}) with the query, every other field empty
Init ==
    /\ user_query \in Queries
    /\ intent = EmptyDict
    /\ raw_orders = <<>>
    /\ parsed_orders = <<>>
    /\ final_orders = <<>>
    /\ heap = <<>>
    /\ pc = ENTRY_POINT
    /\ chunks = <<>>
    /\ extracted_orders = <<>>
    /\ trace = <<>>
    /\ llm_calls = <<>>
    /\ error = "none"
    /\ fetch_failed = FALSE
    /\ produced = <<>>
    /\ last_reply = NoReply
    /\ intent_rejected = FALSE
    /\ ChunkIdle
    /\ NormIdle

----------------------------------------------------------------------------
(* Node 1: parse_intent *)

\* a fallback intent that asks for a state
EMPTY_INTENT_Ohio == [state |-> PyStr(S_ohio), min_total |-> PyNone]

\* except ValidationError: intent = {"state": None, "min_total": None}
EMPTY_INTENT == [state |-> PyNone, min_total |-> PyNone]

\* try: validate; except ValidationError: the empty intent
IntentOf(content) ==
    LET r == IntentSchema_validate(content) IN
    IF r = ValidationError THEN EMPTY_INTENT ELSE r.v

ParseIntent ==
    /\ pc = "parse_intent"
    /\ trace' = Append(trace, "parse_intent")
    /\ llm_calls' = Append(llm_calls, [node |-> "parse_intent", text |-> user_query])
    /\ \E response \in {Raised} \cup IntentContents :
        IF response = Raised
        THEN /\ error' = "llm.invoke raised in parse_intent"
             /\ pc' = ABORTED
             /\ UNCHANGED <<intent, intent_rejected>>
        ELSE /\ intent' = IntentOf(response)
             /\ intent_rejected' = (IntentSchema_validate(response) = ValidationError)
             /\ pc' = Edge("parse_intent")
             /\ UNCHANGED error
    /\ UNCHANGED <<user_query, raw_orders, parsed_orders, final_orders, heap,
                   chunks, extracted_orders, fetch_failed, produced, last_reply,
                   chunk_vars, norm_vars>>

----------------------------------------------------------------------------
(* Node 2: fetch_orders *)

\* a fetch that hands on an error page as the body
FailedFetchText_ErrorPage == <<"5", "0", "0">>

\* except Exception: return {"raw_orders": ""}
FailedFetchText == <<>>

FetchOrders ==
    /\ pc = "fetch_orders"
    /\ trace' = Append(trace, "fetch_orders")
    /\ \E outcome \in {"ok", "timeout", "http error status", "connection error"} :
        IF outcome = "ok"
        THEN /\ raw_orders' \in Bodies
             /\ UNCHANGED fetch_failed
        ELSE /\ raw_orders' = FailedFetchText
             /\ fetch_failed' = TRUE
    /\ pc' = Edge("fetch_orders")
    /\ UNCHANGED <<user_query, intent, parsed_orders, final_orders, heap,
                   chunks, extracted_orders, llm_calls, error, produced, last_reply,
                   intent_rejected,
                   chunk_vars, norm_vars>>

----------------------------------------------------------------------------
(* Node 3: extract_orders *)

\* extracted_orders.extend(o.model_dump() for o in parsed.orders): every dict
\* is a new object, appended to the heap; the list takes their references
NewRefs(h, dicts) == [i \in DOMAIN dicts |-> Len(h) + i]

\* an extraction that gives up at the first rejected chunk
RemainingChunks_StopOnReject(cs, result) ==
    IF result = ValidationError THEN <<>> ELSE Tail(cs)

\* for chunk in chunks: the loop goes on after a ValidationError
RemainingChunks(cs, result) == Tail(cs)

ExtractBegin ==
    /\ pc = "extract_orders"
    /\ trace' = Append(trace, "extract_orders")
    /\ chunks' = chunk_text(raw_orders, DEFAULT_MAX_CHARS)
    /\ extracted_orders' = <<>>
    /\ pc' = "extract_orders.for"
    /\ UNCHANGED <<agent_state, heap, llm_calls, error, fetch_failed, produced,
                   last_reply, intent_rejected, chunk_vars, norm_vars>>

ExtractChunk ==
    /\ pc = "extract_orders.for"
    /\ chunks # <<>>
    /\ llm_calls' = Append(llm_calls, [node |-> "extract_orders", text |-> Head(chunks)])
    /\ \E response \in {Raised} \cup OrdersContents(MaxOrders - Len(heap)) :
        IF response = Raised
        THEN /\ error' = "llm.invoke raised in extract_orders"
             /\ pc' = ABORTED
             /\ last_reply' = NoReply
             /\ UNCHANGED <<heap, extracted_orders, chunks>>
        ELSE LET parsed == OrdersListSchema_validate(response) IN
             /\ last_reply' = parsed
             /\ IF parsed = ValidationError
                THEN UNCHANGED <<heap, extracted_orders>>
                ELSE /\ heap' = heap \o parsed.v
                     /\ extracted_orders' = extracted_orders \o NewRefs(heap, parsed.v)
             /\ chunks' = RemainingChunks(chunks, parsed)
             /\ UNCHANGED <<pc, error>>
    /\ UNCHANGED <<agent_state, trace, fetch_failed, produced, intent_rejected,
                   chunk_vars, norm_vars>>

ExtractReturn ==
    /\ pc = "extract_orders.for"
    /\ chunks = <<>>
    /\ parsed_orders' = extracted_orders
    /\ produced' = [i \in DOMAIN extracted_orders |-> heap[extracted_orders[i]]]
    /\ pc' = Edge("extract_orders")
    /\ last_reply' = NoReply
    /\ UNCHANGED <<user_query, intent, raw_orders, final_orders, heap, chunks,
                   extracted_orders, trace, llm_calls, error, fetch_failed,
                   intent_rejected, chunk_vars, norm_vars>>

----------------------------------------------------------------------------
(* Node 4: filter_orders *)

\* a filter that drops only a null orderId, not an empty one
MissingOrderId_NullOnly(order) == Get(order, "orderId") = PyNone

\* if not order.get("orderId")
MissingOrderId(order) == Falsy(Get(order, "orderId"))

\* a state filter that lets a candidate without a state through
StateRejected_NullPasses(intent_state, order_state) ==
    ~Falsy(intent_state) /\ ~Falsy(order_state) /\ order_state # intent_state

\* if intent_state: if order_state != intent_state
StateRejected(intent_state, order_state) ==
    ~Falsy(intent_state) /\ order_state # intent_state

\* a filter that reads a missing threshold as zero
TotalRejected_NoneIsZero(the_intent, total) ==
    total.v <= (IF Get(the_intent, "min_total") = PyNone THEN 0
                ELSE the_intent.min_total.v)

\* an inclusive threshold
TotalRejected_Inclusive(the_intent, total) ==
    Get(the_intent, "min_total") # PyNone /\ total.v < the_intent.min_total.v

\* if intent.get("min_total") is not None: if total <= intent["min_total"]
TotalRejected(the_intent, total) ==
    Get(the_intent, "min_total") # PyNone /\ total.v <= the_intent.min_total.v

\* a write-back that also clears the buyer
WriteBack_DropsBuyer(order, order_state, total) ==
    [order EXCEPT !.state = order_state, !.total = PyFloat(Round2(total.v)),
                  !.buyer = PyNone]

\* order["state"] = order_state; order["total"] = float(f"{total:.2f}")
WriteBack(order, order_state, total) ==
    [order EXCEPT !.state = order_state, !.total = PyFloat(Round2(total.v))]

\* the loop over state["parsed_orders"]: the heap as the loop leaves it, and
\* the references appended to results
RECURSIVE filter_loop(_, _, _, _)
filter_loop(orders, h, results, the_intent) ==
    IF orders = <<>> THEN [heap |-> h, results |-> results]
    ELSE LET ref == Head(orders)
             order == h[ref]
             total == normalize_total(Get(order, "total"))
             order_state == normalize_state(Get(order, "state"))
             intent_state == normalize_state(Get(the_intent, "state"))
         IN IF MissingOrderId(order) THEN filter_loop(Tail(orders), h, results, the_intent)
            ELSE IF total = PyNone THEN filter_loop(Tail(orders), h, results, the_intent)
            ELSE IF StateRejected(intent_state, order_state)
                 THEN filter_loop(Tail(orders), h, results, the_intent)
            ELSE IF TotalRejected(the_intent, total)
                 THEN filter_loop(Tail(orders), h, results, the_intent)
            ELSE filter_loop(Tail(orders),
                             [h EXCEPT ![ref] = WriteBack(order, order_state, total)],
                             Append(results, ref), the_intent)

FilterOrders ==
    /\ pc = "filter_orders"
    /\ trace' = Append(trace, "filter_orders")
    /\ LET out == filter_loop(parsed_orders, heap, <<>>, intent) IN
        /\ heap' = out.heap
        /\ final_orders' = out.results
    /\ pc' = Edge("filter_orders")
    /\ UNCHANGED <<user_query, intent, raw_orders, parsed_orders, chunks,
                   extracted_orders, llm_calls, error, fetch_failed, produced,
                   last_reply, intent_rejected, chunk_vars, norm_vars>>

----------------------------------------------------------------------------
(* The run *)

Next ==
    \/ ParseIntent
    \/ FetchOrders
    \/ ExtractBegin
    \/ ExtractChunk
    \/ ExtractReturn
    \/ FilterOrders

Spec == Init /\ [][Next]_vars

\* the dicts a list of references stands for
Deref(refs) == [i \in DOMAIN refs |-> heap[refs[i]]]

----------------------------------------------------------------------------
(* Properties of the run, checked under Spec *)

STAGE_ORDER == <<"parse_intent", "fetch_orders", "extract_orders", "filter_orders">>

IsPrefix(a, b) == Len(a) <= Len(b) /\ a = SubSeq(b, 1, Len(a))

InFinal(ref) == \E k \in DOMAIN final_orders : final_orders[k] = ref

\* the candidate passes the orderId check and the state check of the filter
PassesIdAndState(order) ==
    /\ ~Falsy(order.orderId)
    /\ \/ Falsy(normalize_state(intent.state))
       \/ normalize_state(order.state) = normalize_state(intent.state)

\* C1: whatever the collaborators answer, no error escapes a stage and the
\* run is never aborted before the filter has produced final_orders.
C1_NoErrorEscapes == error = "none" /\ pc # ABORTED

\* C2: a field of the shared record keeps the value its stage wrote; when the
\* run has ended, the candidate dicts of parsed_orders still hold the values
\* extract_orders returned.
C2_CandidatesKeepExtractedValues ==
    pc = END => Deref(parsed_orders) = produced

\* C3: the nodes run in the order parse_intent, fetch_orders, extract_orders,
\* filter_orders, none twice, none before its turn; a run that has ended ran
\* each exactly once; and before the first node every field but user_query is
\* empty.
C3_StagesInFixedOrder ==
    /\ IsPrefix(trace, STAGE_ORDER)
    /\ pc = END => trace = STAGE_ORDER
    /\ pc \in {"parse_intent", "fetch_orders", "extract_orders", "filter_orders"}
        => pc = STAGE_ORDER[Len(trace) + 1]
    /\ pc = "extract_orders.for" => trace = SubSeq(STAGE_ORDER, 1, 3)
    /\ trace = <<>> =>
        /\ user_query \in Queries
        /\ intent = EmptyDict
        /\ raw_orders = <<>>
        /\ parsed_orders = <<>>
        /\ final_orders = <<>>

C3_Witness ==
    /\ pc = END
    /\ trace = STAGE_ORDER
    /\ final_orders # <<>>

\* C7: with a non-null min_total the bound is exclusive: a candidate that
\* passes the orderId and state checks is left out when its normalized total
\* equals min_total and is kept when it equals min_total + 0.01.
C7_ExclusiveLowerBound ==
    (pc = END /\ intent.min_total # PyNone) =>
        \A i \in DOMAIN produced :
            LET total == normalize_total(produced[i].total) IN
            (PassesIdAndState(produced[i]) /\ total # PyNone) =>
                /\ total.v = intent.min_total.v => ~InFinal(parsed_orders[i])
                /\ total.v = intent.min_total.v + 10 => InFinal(parsed_orders[i])

C7_Witness ==
    /\ pc = END
    /\ intent.min_total = PyFloat(100000)
    /\ Len(produced) = 2
    /\ PassesIdAndState(produced[1]) /\ produced[1].total = PyFloat(100000)
    /\ PassesIdAndState(produced[2]) /\ produced[2].total = PyFloat(100010)
    /\ final_orders = <<parsed_orders[2]>>

\* the state half of the filter, for the intents in `constrained`
StateFilterHolds(constrained) ==
    (pc = END /\ constrained) =>
        \A i \in DOMAIN produced :
            LET ref == parsed_orders[i] IN
            /\ InFinal(ref) =>
                /\ normalize_state(produced[i].state) = normalize_state(intent.state)
                /\ heap[ref].state = normalize_state(intent.state)
            /\ (\/ produced[i].state = PyNone
                \/ normalize_state(produced[i].state) # normalize_state(intent.state))
                => ~InFinal(ref)

\* C8 as stated: whenever intent.state is non-null, the empty string
\* included, every final order has the normalized intent state and no
\* candidate with a null or different state is final.
C8_StateFilter_AnyNonNull == StateFilterHolds(intent.state # PyNone)

\* C8, amended: whenever intent.state is non-null and non-empty, every final
\* order has the normalized intent state and no candidate with a null or
\* different normalized state is final.
C8_StateFilter_NonEmpty == StateFilterHolds(~Falsy(intent.state))

C8_Witness ==
    /\ pc = END
    /\ intent.state = PyStr(S_ohio)
    /\ Len(produced) = 2
    /\ produced[1].state = PyNone /\ ~Falsy(produced[1].orderId)
    /\ produced[2].state = PyStr(S_OH)
    /\ final_orders = <<parsed_orders[2]>>

\* C9: a candidate whose orderId is null or empty is never in final_orders.
C9_MissingOrderIdExcluded ==
    pc = END =>
        /\ \A i \in DOMAIN produced :
            Falsy(produced[i].orderId) => ~InFinal(parsed_orders[i])
        /\ \A k \in DOMAIN final_orders : ~Falsy(heap[final_orders[k]].orderId)

C9_Witness ==
    /\ pc = END
    /\ intent = EMPTY_INTENT
    /\ Len(produced) = 2
    /\ produced[1].orderId = PyStr(<<>>)
    /\ produced[2].orderId = PyNone
    /\ final_orders = <<>>

\* C10: when requests.get fails, raw_orders is the empty string, chunk_text
\* yields no chunk, extract_orders makes no completion call, no error aborts
\* the run and it ends with final_orders empty.
C10_FetchFailureDegrades ==
    fetch_failed =>
        /\ raw_orders = <<>>
        /\ chunks = <<>>
        /\ \A k \in DOMAIN llm_calls : llm_calls[k].node # "extract_orders"
        /\ pc # ABORTED
        /\ heap = <<>> /\ parsed_orders = <<>>
        /\ pc = END => final_orders = <<>>

C10_Witness ==
    /\ fetch_failed
    /\ pc = END
    /\ trace = STAGE_ORDER

\* C12: when the schema rejects the completion of parse_intent, intent is
\* {"state": None, "min_total": None}, the rejection raises nothing and
\* fetch_orders is next, and in a run that has ended every candidate with a
\* non-empty orderId and a parseable total is in final_orders.
C12_RejectedIntentFiltersNothing ==
    intent_rejected =>
        /\ intent.state = PyNone /\ intent.min_total = PyNone
        /\ trace = <<"parse_intent">> => (pc = "fetch_orders" /\ error = "none")
        /\ pc = END =>
            \A i \in DOMAIN produced :
                (/\ ~Falsy(produced[i].orderId)
                 /\ normalize_total(produced[i].total) # PyNone)
                    => InFinal(parsed_orders[i])

\* a rejected intent, and a run that ended with both candidates final: one
\* without a state, one with a state
C12_Witness ==
    /\ intent_rejected
    /\ pc = END
    /\ Len(produced) = 2
    /\ produced[1].state = PyNone
    /\ produced[2].state = PyStr(S_CA)
    /\ final_orders = parsed_orders

\* the chunks handed to the completion by extract_orders, in call order
ExtractTexts ==
    LET calls == SelectSeq(llm_calls, LAMBDA c : c.node = "extract_orders")
    IN [k \in DOMAIN calls |-> calls[k].text]

\* the order dicts a reply of the schema contributes
Accepted(reply) == IF reply = ValidationError THEN <<>> ELSE reply.v

\* one pass of the loop of extract_orders that did not raise
ChunkProcessed ==
    /\ pc = "extract_orders.for" /\ chunks # <<>>
    /\ pc' = "extract_orders.for"

\* C11: extract_orders hands every chunk to the completion, in order; each
\* pass consumes one chunk and appends exactly the orders of an accepted
\* reply (nothing for a rejected one, duplicates kept) after the orders
\* gathered so far; parsed_orders is what the passes gathered, with the
\* values the schema produced when extract_orders returns.
C11_ExtractionConcatenatesAccepted ==
    /\ [](pc \in {"filter_orders", END} =>
            /\ ExtractTexts = chunk_text(raw_orders, DEFAULT_MAX_CHARS)
            /\ parsed_orders = extracted_orders)
    /\ [](pc = "filter_orders" => Deref(parsed_orders) = produced)
    /\ [][ChunkProcessed =>
            /\ chunks' = Tail(chunks)
            /\ llm_calls' = Append(llm_calls, [node |-> "extract_orders",
                                                text |-> Head(chunks)])
            /\ [i \in DOMAIN extracted_orders' |-> heap'[extracted_orders'[i]]]
                  = Deref(extracted_orders) \o Accepted(last_reply')]_vars

\* a rejected chunk after an accepted one, with a chunk still to process,
\* and the same order gathered twice
C11_Witness ==
    /\ pc = "extract_orders.for"
    /\ Len(ExtractTexts) = 2
    /\ last_reply = ValidationError
    /\ chunks # <<>>
    /\ Len(extracted_orders) = 2
    /\ heap[extracted_orders[1]] = heap[extracted_orders[2]]

\* where parsed_orders holds the dict ref (each dict is held once)
PositionOf(ref) == CHOOSE i \in DOMAIN parsed_orders : parsed_orders[i] = ref

\* C14: final_orders is a subsequence of parsed_orders: every final order is
\* one of the candidates, the final orders are in the candidates' order, no
\* candidate is final twice, and a final order has the orderId and the buyer
\* extract_orders returned for it.
C14_FinalIsSubsequence ==
    pc = END =>
        /\ \A k \in DOMAIN final_orders :
            /\ \E i \in DOMAIN parsed_orders : parsed_orders[i] = final_orders[k]
            /\ heap[final_orders[k]].orderId
                  = produced[PositionOf(final_orders[k])].orderId
            /\ heap[final_orders[k]].buyer
                  = produced[PositionOf(final_orders[k])].buyer
        /\ \A k1, k2 \in DOMAIN final_orders :
            k1 < k2 => PositionOf(final_orders[k1]) < PositionOf(final_orders[k2])

\* two equal candidates, both final, each once, with their buyer
C14_Witness ==
    /\ pc = END
    /\ Len(produced) = 2
    /\ produced[1] = produced[2]
    /\ produced[1].buyer = PyStr(S_bob)
    /\ final_orders = parsed_orders
    /\ heap[final_orders[2]].buyer = PyStr(S_bob)

\* C15: when the run has ended, every final order has a non-null, non-empty
\* orderId, a total that is a number with at most two decimals, and a state
\* that is None or a value normalize_state returns unchanged.
C15_FinalOrdersNormalized ==
    pc = END =>
        \A k \in DOMAIN final_orders :
            LET order == heap[final_orders[k]] IN
            /\ ~Falsy(order.orderId)
            /\ order.total.t = "float" /\ order.total.v % 10 = 0
            /\ order.state = PyNone \/ normalize_state(order.state) = order.state

\* the candidate's total is above the threshold of the intent, if there is one
AboveThreshold(order) ==
    LET total == normalize_total(order.total) IN
    /\ total # PyNone
    /\ intent.min_total = PyNone \/ total.v > intent.min_total.v

\* C16: a None field of the intent constrains nothing, each field on its
\* own: with intent.state None every candidate that passes the other checks
\* is final whatever its state, and with intent.min_total None every
\* candidate that passes the other checks is final whatever its total.
C16_NullIntentFieldIsNoConstraint ==
    pc = END =>
        \A i \in DOMAIN produced :
            /\ (/\ intent.state = PyNone
                 /\ ~Falsy(produced[i].orderId)
                 /\ AboveThreshold(produced[i])) => InFinal(parsed_orders[i])
            /\ (/\ intent.min_total = PyNone
                 /\ PassesIdAndState(produced[i])
                 /\ normalize_total(produced[i].total) # PyNone)
                    => InFinal(parsed_orders[i])

\* no threshold but a state: a candidate of that state with a total of zero
\* is final, a candidate of another state is not
C16_Witness ==
    /\ pc = END
    /\ intent.state = PyStr(S_ohio) /\ intent.min_total = PyNone
    /\ Len(produced) = 2
    /\ produced[1].state = PyStr(S_OH) /\ produced[1].total = PyFloat(0)
    /\ produced[2].state = PyStr(S_CA)
    /\ final_orders = <<parsed_orders[1]>>

\* C19: whenever intent.min_total is not None, the total written to every
\* final order (the rounded one) is strictly greater than intent.min_total.
C19_RoundedTotalAboveThreshold ==
    (pc = END /\ intent.min_total # PyNone) =>
        \A k \in DOMAIN final_orders :
            heap[final_orders[k]].total.v > intent.min_total.v

----------------------------------------------------------------------------
(* Properties of the normalizers, checked under SpecNorm *)

\* C13: normalize_state is idempotent: applied to its own result it returns
\* that result, whatever the input.
C13_NormalizeStateIdempotent ==
    ret_state_again # NoReturn => ret_state_again = ret_state

\* the text with every "$" and "," removed
WithoutSymbols(s) == RemoveChar(RemoveChar(s, "$"), ",")

\* C17: normalize_total never raises; it returns None for None, the same
\* number as a float for an int or a float, for a str the number read after
\* every "$" and "," is removed or None when that is no number, and None
\* for any other value.
C17_NormalizeTotalByRepresentation ==
    ret_total # NoReturn =>
        /\ ret_total # OverflowError
        /\ arg_value.t = "None" => ret_total = PyNone
        /\ arg_value.t = "float" => ret_total = arg_value
        /\ (arg_value.t = "int" /\ arg_value.fits_float)
            => ret_total = PyFloat(1000 * arg_value.v)
        /\ arg_value.t = "str" =>
            LET number == float_of_str(WithoutSymbols(arg_value.v)) IN
            ret_total = IF number = ValueError THEN PyNone ELSE number
        /\ arg_value = PyInt(42) => ret_total = PyFloat(42000)
        /\ arg_value = PyStr(S_dollars) => ret_total = PyFloat(1234500)
        /\ arg_value = PyStr(S_abc) => ret_total = PyNone
        /\ arg_value.t = "list" => ret_total = PyNone

\* C18: normalize_state returns None for None and for the empty string, the
\* code of the table when the trimmed, lower-cased input is a key, and
\* otherwise the trimmed input in upper case.
C18_UnmappedIsTrimmedUpperCase ==
    ret_state # NoReturn =>
        IF Falsy(arg_value) THEN ret_state = PyNone
        ELSE LET v == lower(strip(arg_value.v)) IN
             IF v \in DOMAIN STATE_NORMALIZATION
             THEN ret_state = PyStr(STATE_NORMALIZATION[v])
             ELSE /\ ret_state = PyStr(upper(strip(arg_value.v)))
                  /\ strip(ret_state.v) = ret_state.v

----------------------------------------------------------------------------
(* Properties of chunk_text, checked under SpecChunk *)

Called == ret_chunks # NotCalled

RECURSIVE LinesOfAll(_)
LinesOfAll(cs) == IF cs = <<>> THEN <<>> ELSE splitlines(Head(cs)) \o LinesOfAll(Tail(cs))

IsLong(line) == Len(line) > arg_max_chars
HoldsLong(chunk) == \E i \in DOMAIN splitlines(chunk) : IsLong(splitlines(chunk)[i])

\* C4: for every text and max_chars, the lines of the chunks, taken in order,
\* are exactly the lines of the text: no line duplicated, dropped or added.
C4_ChunksReconstructText ==
    Called => LinesOfAll(ret_chunks) = splitlines(arg_text)

\* C5: when max_chars >= 1 and no line of the text is longer than max_chars,
\* every chunk (separators included) is at most max_chars characters long.
C5_ChunkWithinBudget ==
    (/\ Called
     /\ arg_max_chars >= 1
     /\ \A i \in DOMAIN splitlines(arg_text) : ~IsLong(splitlines(arg_text)[i]))
    => \A k \in DOMAIN ret_chunks : Len(ret_chunks[k]) <= arg_max_chars

\* C6: a line longer than max_chars is never split and is emitted alone: the
\* chunks that hold a long line are, in order, exactly the long lines of the
\* text, each chunk being that line and nothing else.
C6_LongLineAlone ==
    Called => SelectSeq(ret_chunks, HoldsLong) = SelectSeq(splitlines(arg_text), IsLong)

\* a long line with a short line before it and a short line after it
\* C20: chunk_text returns no empty chunk, whatever the lines and max_chars.
C20_NoEmptyChunk ==
    Called => \A i \in DOMAIN ret_chunks : ret_chunks[i] # <<>>

C6_Witness ==
    /\ Called
    /\ Len(splitlines(arg_text)) = 3
    /\ ~IsLong(splitlines(arg_text)[1])
    /\ IsLong(splitlines(arg_text)[2])
    /\ ~IsLong(splitlines(arg_text)[3])
    /\ splitlines(arg_text)[1] # <<>>
    /\ \E k \in DOMAIN ret_chunks : ret_chunks[k] = splitlines(arg_text)[2]

====
